---- MODULE Spec2Model ----
(***************************************************************************)
(* Model of the data hook of the GitLab Gantt dashboard (useGitLabData),   *)
(* the Task Tree Builder (convertToGanttTasks), the date-range and         *)
(* milestone filter, the chart's conversion of the visible tasks           *)
(* (svarTasks) and its update-task handler, and the Edit Coordinator       *)
(* (updateTaskDates).                                                      *)
(*                                                                         *)
(* A JavaScript Date is an integer number of ticks since the epoch, UTC;   *)
(* TicksPerDay ticks make one day, so a Date carries a time of day.        *)
(* A calendar-date string "YYYY-MM-DD" is a record with a day number and   *)
(* a time of day of 0; a timestamp string carries both.                    *)
(***************************************************************************)
EXTENDS Integers, Sequences, FiniteSets, TLC

VARIABLES
    allTasks,        \* useState allTasks: the task list of the last build
    tasks,           \* useState tasks: the visible (filtered) task list
    milestones,      \* useState milestones
    issues,          \* useState issues: the ParsedIssue snapshot
    labels,          \* useState labels
    loading,         \* useState loading
    error,           \* useState error: a message or NoError
    filterOptions,   \* useState filterOptions
    storage,         \* localStorage[FILTER_STORAGE_KEY]
    initialLoadDone, \* useRef initialLoadDone
    useDemoDataRef,  \* useRef useDemoDataRef
    loads,           \* the loadData calls so far, by generation, with their position
    edits,           \* the updateTaskDates calls so far, in start order, with their outcome
    remote,          \* the remote project: milestones and issues with their dates
    tasksGen,        \* the generation of the loadData call that last wrote allTasks
    nOps,            \* number of user operations so far (refresh, filter change, drag)
    fIn, fOpts,      \* one filter application: the task list and the FilterState
    fDateOut, fOut,  \* its date-filter output and its visible list
    fDone            \* whether it has run

vars == <<allTasks, tasks, milestones, issues, labels, loading, error, filterOptions,
          storage, initialLoadDone, useDemoDataRef, loads, edits, remote, tasksGen,
          nOps, fIn, fOpts, fDateOut, fOut, fDone>>

hookVars == <<allTasks, tasks, milestones, issues, labels, loading, error, filterOptions,
              storage, initialLoadDone, useDemoDataRef, loads, edits, remote, tasksGen,
              nOps>>

filterVars == <<fIn, fOpts, fDateOut, fOut, fDone>>

----------------------------------------------------------------------------
(* Bounds of the model *)

MaxOps == 2      \* user operations (refresh, filter change, drag edit) in one behaviour
MaxDescLen == 4  \* length of an issue description, in tokens
MaxTaskCount == 8  \* task_completion_status.count of an issue

----------------------------------------------------------------------------
(* Dates *)

TicksPerDay == 2                   \* 24 * 60 * 60 * 1000 ms
defaultDuration == 7               \* days
NoDate == -1                       \* null where a Date is expected
InvalidDate == -2                  \* new Date(s) of a string that does not parse

Days(n) == n * TicksPerDay

\* A date string: k = "null" (absent), "bad" (does not parse) or "ok".
NullStr == [k |-> "null", d |-> 0, t |-> 0]
BadStr == [k |-> "bad", d |-> 0, t |-> 0]
DateStr(day) == [k |-> "ok", d |-> day, t |-> 0]
TimeStr(day, tod) == [k |-> "ok", d |-> day, t |-> tod]

\* parseDate: null for an absent or an unparseable string, else the Date.
parseDate(dateStr) ==
    IF dateStr.k = "null" THEN NoDate
    ELSE IF dateStr.k = "bad" THEN NoDate
    ELSE Days(dateStr.d) + dateStr.t

\* formatDate: toISOString().split('T')[0], the UTC calendar day of the Date.
formatDate(date) == DateStr(date \div TicksPerDay)

\* The time zones of the host, as the offset of local time from UTC in ticks:
\* UTC-12, UTC and UTC+12.
TzOffsets == {0 - (TicksPerDay \div 2), 0, TicksPerDay \div 2}

\* The calendar day a Date shows in local time (getFullYear, getMonth, getDate).
LocalDay(date, offset) == (date + offset) \div TicksPerDay

\* The clock readings (new Date()) the model draws from: mid-day of day 100.
Nows == {Days(100) + 1}

----------------------------------------------------------------------------
(* Task ids *)

NoId == [kind |-> "none", n |-> 0, idx |-> 0]            \* undefined parent
MilestoneId(n) == [kind |-> "milestone", n |-> n, idx |-> 0]   \* `milestone-${n}`
IssueId(n) == [kind |-> "issue", n |-> n, idx |-> 0]           \* `issue-${n}`
\* SubtaskId without the index of the checklist item.
SubtaskId_NoIndex(n, i) == [kind |-> "subtask", n |-> n, idx |-> 0]
SubtaskId(n, i) == [kind |-> "subtask", n |-> n, idx |-> i]    \* `issue-${n}-task-${i}`
OtherId(n) == [kind |-> "other", n |-> n, idx |-> 0]           \* any other string

----------------------------------------------------------------------------
(* Sequence helpers *)

Range(s) == {s[k] : k \in 1..Len(s)}

Includes(s, x) == \E k \in 1..Len(s) : s[k] = x

\* Math.min / Math.max over the start and end times of a non-empty task list.
RECURSIVE MinStart(_)
MinStart(ts) ==
    IF Len(ts) = 1 THEN ts[1].start
    ELSE LET r == MinStart(Tail(ts)) IN IF ts[1].start < r THEN ts[1].start ELSE r

RECURSIVE MaxEnd(_)
MaxEnd(ts) ==
    IF Len(ts) = 1 THEN ts[1].end
    ELSE LET r == MaxEnd(Tail(ts)) IN IF ts[1].end > r THEN ts[1].end ELSE r

----------------------------------------------------------------------------
(* Task Tree Builder *)

MilestoneTask(milestone, today) ==
    LET hasOriginalStartDate == parseDate(milestone.start_date) # NoDate
        hasOriginalDueDate == parseDate(milestone.due_date) # NoDate
        start == IF hasOriginalStartDate THEN parseDate(milestone.start_date) ELSE today
        end == IF hasOriginalDueDate THEN parseDate(milestone.due_date)
               ELSE start + Days(defaultDuration)
    IN [id |-> MilestoneId(milestone.id), type |-> "summary", isSubtask |-> FALSE,
        parent |-> NoId, start |-> start, end |-> end, progress |-> 0,
        milestoneId |-> milestone.id, gitlabIid |-> 0,
        hasOriginalStartDate |-> hasOriginalStartDate,
        hasOriginalDueDate |-> hasOriginalDueDate]

\* IssueProgress with Math.floor in place of Math.round.
IssueProgress_Floor(issue) ==
    IF issue.tcs.count > 0
    THEN (100 * issue.tcs.completed_count) \div issue.tcs.count
    ELSE IF issue.state = "closed" THEN 100 ELSE 0

\* Math.round(x) is floor(x + 1/2); task_completion_status absent is count 0.
IssueProgress(issue) ==
    IF issue.tcs.count > 0
    THEN (200 * issue.tcs.completed_count + issue.tcs.count) \div (2 * issue.tcs.count)
    ELSE IF issue.state = "closed" THEN 100 ELSE 0

\* IssueTasks with the created_at fallback counted as an original start date.
IssueTasks_CreatedIsOriginal(issue, today) ==
    LET parentId == IF issue.milestone # 0 THEN MilestoneId(issue.milestone) ELSE NoId
        hasOriginalStartDate == \/ parseDate(issue.start_date) # NoDate
                                \/ parseDate(issue.created_at) # NoDate
        hasOriginalDueDate == parseDate(issue.due_date) # NoDate
        start == IF parseDate(issue.start_date) # NoDate THEN parseDate(issue.start_date)
                 ELSE IF parseDate(issue.created_at) # NoDate THEN parseDate(issue.created_at)
                 ELSE today
        end == IF hasOriginalDueDate THEN parseDate(issue.due_date)
               ELSE start + Days(defaultDuration)
        node == [id |-> IssueId(issue.id), type |-> "task", isSubtask |-> FALSE,
                 parent |-> parentId, start |-> start, end |-> end,
                 progress |-> IssueProgress(issue),
                 milestoneId |-> 0, gitlabIid |-> issue.iid,
                 hasOriginalStartDate |-> hasOriginalStartDate,
                 hasOriginalDueDate |-> hasOriginalDueDate]
        sub(index) == [id |-> SubtaskId(issue.id, index), type |-> "task", isSubtask |-> TRUE,
                       parent |-> IssueId(issue.id), start |-> start, end |-> end,
                       progress |-> IF issue.tasks[index + 1].checked THEN 100 ELSE 0,
                       milestoneId |-> 0, gitlabIid |-> issue.iid,
                       hasOriginalStartDate |-> FALSE,
                       hasOriginalDueDate |-> FALSE]
    IN <<node>> \o [k \in 1..Len(issue.tasks) |-> sub(k - 1)]

IssueTasks(issue, today) ==
    LET parentId == IF issue.milestone # 0 THEN MilestoneId(issue.milestone) ELSE NoId
        hasOriginalStartDate == parseDate(issue.start_date) # NoDate
        hasOriginalDueDate == parseDate(issue.due_date) # NoDate
        start == IF hasOriginalStartDate THEN parseDate(issue.start_date)
                 ELSE IF parseDate(issue.created_at) # NoDate THEN parseDate(issue.created_at)
                 ELSE today
        end == IF hasOriginalDueDate THEN parseDate(issue.due_date)
               ELSE start + Days(defaultDuration)
        node == [id |-> IssueId(issue.id), type |-> "task", isSubtask |-> FALSE,
                 parent |-> parentId, start |-> start, end |-> end,
                 progress |-> IssueProgress(issue),
                 milestoneId |-> 0, gitlabIid |-> issue.iid,
                 hasOriginalStartDate |-> hasOriginalStartDate,
                 hasOriginalDueDate |-> hasOriginalDueDate]
        sub(index) == [id |-> SubtaskId(issue.id, index), type |-> "task", isSubtask |-> TRUE,
                       parent |-> IssueId(issue.id), start |-> start, end |-> end,
                       progress |-> IF issue.tasks[index + 1].checked THEN 100 ELSE 0,
                       milestoneId |-> 0, gitlabIid |-> issue.iid,
                       hasOriginalStartDate |-> FALSE,
                       hasOriginalDueDate |-> FALSE]
    IN <<node>> \o [k \in 1..Len(issue.tasks) |-> sub(k - 1)]

\* issues.forEach: the nodes of each issue, in order.
RECURSIVE IssuesTasks(_, _)
IssuesTasks(is, today) ==
    IF is = <<>> THEN <<>>
    ELSE IssueTasks(Head(is), today) \o IssuesTasks(Tail(is), today)

convertToGanttTasks(ms, is, today) ==
    [k \in 1..Len(ms) |-> MilestoneTask(ms[k], today)] \o IssuesTasks(is, today)

\* getDemoTasks: the built-in demonstration dataset; its nodes carry no
\* hasOriginal flags (undefined, read as false), no milestoneId and no gitlabIid.
getDemoTasks(today) ==
    LET demo(id, type, parent, start, end, progress) ==
            [id |-> id, type |-> type, isSubtask |-> FALSE, parent |-> parent,
             start |-> start, end |-> end, progress |-> progress,
             milestoneId |-> 0, gitlabIid |-> 0,
             hasOriginalStartDate |-> FALSE, hasOriginalDueDate |-> FALSE]
    IN << demo(MilestoneId(1), "summary", NoId, today, today + Days(30), 25),
          demo(IssueId(1), "task", MilestoneId(1), today, today + Days(7), 50),
          demo(IssueId(2), "task", MilestoneId(1), today + Days(3), today + Days(10), 0) >>

----------------------------------------------------------------------------
(* Date-Range & Milestone Filter *)

\* FirstPass with the exemption granted when either original date is missing.
FirstPass_EitherMissing(task, dateRange) ==
    IF task.type = "summary" THEN FALSE
    ELSE IF task.isSubtask THEN TRUE
    ELSE IF ~task.hasOriginalStartDate \/ ~task.hasOriginalDueDate THEN TRUE
    ELSE IF dateRange.startDate # NoDate /\ dateRange.endDate # NoDate
         THEN task.start <= dateRange.endDate /\ task.end >= dateRange.startDate
    ELSE IF dateRange.startDate # NoDate THEN task.end >= dateRange.startDate
    ELSE IF dateRange.endDate # NoDate THEN task.start <= dateRange.endDate
    ELSE TRUE

\* The first pass of filterTasksByDateRange: the predicate of tasks.filter.
FirstPass(task, dateRange) ==
    IF task.type = "summary" THEN FALSE
    ELSE IF task.isSubtask THEN TRUE
    ELSE IF ~task.hasOriginalStartDate /\ ~task.hasOriginalDueDate THEN TRUE
    ELSE IF dateRange.startDate # NoDate /\ dateRange.endDate # NoDate
         THEN task.start <= dateRange.endDate /\ task.end >= dateRange.startDate
    ELSE IF dateRange.startDate # NoDate THEN task.end >= dateRange.startDate
    ELSE IF dateRange.endDate # NoDate THEN task.start <= dateRange.endDate
    ELSE TRUE

\* filterTasksByDateRange with the parent ids collected from all tasks.
filterTasksByDateRange_AllParents(ts, dateRange) ==
    IF dateRange.startDate = NoDate /\ dateRange.endDate = NoDate THEN ts
    ELSE LET filteredTasks == SelectSeq(ts, LAMBDA t : FirstPass(t, dateRange))
             parentIdsWithChildren == {ts[k].parent : k \in 1..Len(ts)} \ {NoId}
             ms == SelectSeq(ts, LAMBDA t : t.type = "summary"
                                            /\ t.id \in parentIdsWithChildren)
             issueIds == {t.id : t \in {x \in Range(filteredTasks) : ~x.isSubtask}}
             validSubtasks ==
                 SelectSeq(filteredTasks,
                           LAMBDA t : ~t.isSubtask \/ (t.parent # NoId /\ t.parent \in issueIds))
         IN ms \o validSubtasks

filterTasksByDateRange(ts, dateRange) ==
    IF dateRange.startDate = NoDate /\ dateRange.endDate = NoDate THEN ts
    ELSE LET filteredTasks == SelectSeq(ts, LAMBDA t : FirstPass(t, dateRange))
             parentIdsWithChildren ==
                 {filteredTasks[k].parent : k \in 1..Len(filteredTasks)} \ {NoId}
             ms == SelectSeq(ts, LAMBDA t : t.type = "summary"
                                            /\ t.id \in parentIdsWithChildren)
             issueIds == {t.id : t \in {x \in Range(filteredTasks) : ~x.isSubtask}}
             validSubtasks ==
                 SelectSeq(filteredTasks,
                           LAMBDA t : ~t.isSubtask \/ (t.parent # NoId /\ t.parent \in issueIds))
         IN ms \o validSubtasks

\* The milestone filter of the filter effect: the predicate of filtered.filter.
MilestoneFilterKeeps(task, selectedMilestoneIds) ==
    IF task.type = "summary" /\ task.milestoneId # 0
    THEN Includes(selectedMilestoneIds, task.milestoneId)
    ELSE IF task.type = "task"
         THEN IF task.parent.kind = "milestone"
              THEN Includes(selectedMilestoneIds, task.parent.n)
              ELSE FALSE
    ELSE TRUE

\* The filter effect of useGitLabData: the value it passes to setTasks.
FilterEffect(ts, options) ==
    LET filtered == filterTasksByDateRange(ts, options.dateRange)
    IN IF Len(options.selectedMilestoneIds) > 0
       THEN SelectSeq(filtered,
                      LAMBDA t : MilestoneFilterKeeps(t, options.selectedMilestoneIds))
       ELSE filtered

----------------------------------------------------------------------------
(* The chart: conversion of the visible tasks, and the drag gesture *)

NoRange == [startDate |-> NoDate, endDate |-> NoDate]

\* GanttChart dateRange memo: the overall range used to extend undated tasks.
displayDateRange(ts, today) ==
    LET tasksWithDates == SelectSeq(ts, LAMBDA t : t.hasOriginalStartDate
                                                   \/ t.hasOriginalDueDate)
    IN IF Len(tasksWithDates) = 0
       THEN [minDate |-> today - Days(90), maxDate |-> today + Days(90)]
       ELSE [minDate |-> MinStart(ts) - Days(30), maxDate |-> MaxEnd(ts) + Days(30)]

\* GanttChart svarTasks memo; the numeric id of a row is its index.
svarTasks(ts, filterDateRange, today) ==
    LET dateRange == displayDateRange(ts, today)
        conv(task) ==
            LET hasOriginalStart == task.hasOriginalStartDate
                hasOriginalEnd == task.hasOriginalDueDate
                displayStartBound == IF filterDateRange.startDate # NoDate
                                     THEN filterDateRange.startDate ELSE dateRange.minDate
                displayEndBound == IF filterDateRange.endDate # NoDate
                                   THEN filterDateRange.endDate ELSE dateRange.maxDate
                start == IF hasOriginalStart THEN task.start ELSE displayStartBound
                end0 == IF hasOriginalEnd THEN task.end ELSE displayEndBound
                end == IF end0 <= start THEN start + Days(1) ELSE end0
            IN [originalId |-> task.id, start |-> start, end |-> end,
                hasOriginalStart |-> hasOriginalStart, hasOriginalEnd |-> hasOriginalEnd]
    IN IF Len(ts) = 0 THEN <<>> ELSE [k \in 1..Len(ts) |-> conv(ts[k])]

\* A completed drag gesture of the chart widget on a row: the bar is moved as a
\* whole, or one of its two edges is dragged; the other edge keeps the row's value.
Drags == {<<"move", Days(1)>>, <<"resizeStart", 0 - Days(1)>>, <<"resizeEnd", Days(1)>>}

GestureStart(row, gesture, delta) ==
    IF gesture \in {"move", "resizeStart"} THEN row.start + delta ELSE row.start
GestureEnd(row, gesture, delta) ==
    IF gesture \in {"move", "resizeEnd"} THEN row.end + delta ELSE row.end

\* Where a value handed to the update-task handler comes from.
StartSource(row, gesture) ==
    IF gesture \in {"move", "resizeStart"} THEN "gesture"
    ELSE IF row.hasOriginalStart THEN "real" ELSE "inferred"
EndSource(row, gesture) ==
    IF gesture \in {"move", "resizeEnd"} THEN "gesture"
    ELSE IF row.hasOriginalEnd THEN "real" ELSE "inferred"

----------------------------------------------------------------------------
(* Checklist extraction *)

\* A description is a sequence of tokens: a bullet marker, a blank, a line break,
\* a checkbox, or a character of other text. null is the empty description.
Tokens == {"-", "*", " ", "\n", "[ ]", "[x]", "[X]", "a"}

IsWhitespace(c) == c \in {" ", "\n"}          \* \s
IsBullet(c) == c \in {"-", "*"}               \* [-*]
IsBox(c) == c \in {"[ ]", "[x]", "[X]"}       \* \[([ xX])\]

\* \s* taken greedily from position i: the first position that is not whitespace.
RECURSIVE SkipWhitespace(_, _)
SkipWhitespace(s, i) ==
    IF i <= Len(s) /\ IsWhitespace(s[i]) THEN SkipWhitespace(s, i + 1) ELSE i

\* .+ taken greedily from position i: the position of the end of the line.
RECURSIVE LineEnd(_, _)
LineEnd(s, i) ==
    IF i <= Len(s) /\ s[i] # "\n" THEN LineEnd(s, i + 1) ELSE i

\* Where (.+) starts after the checkbox: \s* takes all the whitespace from q; when
\* the text ends there it backtracks to the last blank, which .+ then takes.
\* 0 when there is no match.
TextStart(s, q) ==
    LET j == SkipWhitespace(s, q)
        blanks == {k \in q..Len(s) : s[k] = " "}
    IN IF j <= Len(s) THEN j
       ELSE IF blanks = {} THEN 0
       ELSE CHOOSE k \in blanks : \A m \in blanks : m <= k

\* String.prototype.trim on a text without line breaks.
RECURSIVE trim(_)
trim(s) ==
    IF s = <<>> THEN s
    ELSE IF Head(s) = " " THEN trim(Tail(s))
    ELSE IF s[Len(s)] = " " THEN trim(SubSeq(s, 1, Len(s) - 1))
    ELSE s

\* taskRegex matched with its start at position i:
\* ^[\s]*[-*]\s*\[([ xX])\]\s*(.+)$ with the flags g and m.
MatchAt(s, i) ==
    LET b == SkipWhitespace(s, i)
        x == SkipWhitespace(s, b + 1)
        ts == TextStart(s, x + 1)
        te == LineEnd(s, ts)
        ok == /\ i = 1 \/ s[i - 1] = "\n"
              /\ b <= Len(s) /\ IsBullet(s[b])
              /\ x <= Len(s) /\ IsBox(s[x])
              /\ ts # 0
    IN IF ok
       THEN [ok |-> TRUE, lastIndex |-> te,
             item |-> [checked |-> s[x] \in {"[x]", "[X]"},
                       text |-> trim(SubSeq(s, ts, te - 1))]]
       ELSE [ok |-> FALSE, lastIndex |-> 0, item |-> [checked |-> FALSE, text |-> <<>>]]

\* The while loop of taskRegex.exec(description) from lastIndex.
RECURSIVE execFrom(_, _)
execFrom(s, lastIndex) ==
    LET starts == {i \in lastIndex..Len(s) : MatchAt(s, i).ok}
        i == CHOOSE k \in starts : \A m \in starts : k <= m
    IN IF starts = {} THEN <<>>
       ELSE <<MatchAt(s, i).item>> \o execFrom(s, MatchAt(s, i).lastIndex)

parseTasksFromDescription(description) ==
    IF description = <<>> THEN <<>> ELSE execFrom(description, 1)

----------------------------------------------------------------------------
(* The remote project (Collaborator A) *)

NoTcs == [count |-> 0, completed_count |-> 0]   \* task_completion_status absent

RemoteMilestones0 ==
    << [id |-> 7, start_date |-> DateStr(100), due_date |-> DateStr(110)] >>

RemoteIssues0 ==
    << [id |-> 41, iid |-> 1, state |-> "opened", milestone |-> 7,
        start_date |-> NullStr, due_date |-> DateStr(104),
        created_at |-> TimeStr(99, 1), tcs |-> NoTcs, labels |-> <<"bug", "gone">>,
        description |-> <<"-", " ", "[x]", " ", "a">>],
       [id |-> 42, iid |-> 2, state |-> "closed", milestone |-> 0,
        start_date |-> NullStr, due_date |-> NullStr,
        created_at |-> TimeStr(101, 1), tcs |-> NoTcs, labels |-> <<>>,
        description |-> <<>>] >>

RemoteLabels == << [name |-> "bug"], [name |-> "feature"] >>

\* fetchAllIssuesAsWorkItems: the issues of the project in the given state and,
\* when milestone titles are given, of the milestones named (a title is modelled
\* by the id of its milestone).
fetchAllIssuesAsWorkItems(r, state, milestoneTitles) ==
    SelectSeq(r.is, LAMBDA i : /\ (state = "all" \/ i.state = state)
                               /\ (Len(milestoneTitles) > 0
                                     => Includes(milestoneTitles, i.milestone)))

\* enrichIssuesWithLabels: checklist items and resolved label objects.
enrichIssuesWithLabels(is, ls) ==
    LET known(name) == \E k \in 1..Len(ls) : ls[k].name = name
        enrich(issue) ==
            [id |-> issue.id, iid |-> issue.iid, state |-> issue.state,
             milestone |-> issue.milestone, start_date |-> issue.start_date,
             due_date |-> issue.due_date, created_at |-> issue.created_at,
             tcs |-> issue.tcs, tasks |-> parseTasksFromDescription(issue.description),
             labelObjects |-> SelectSeq(issue.labels, known)]
    IN [k \in 1..Len(is) |-> enrich(is[k])]

\* The remote after "update milestone dates" / "update issue dates".
RemoteUpdateMilestone(r, milestoneId, start_date, due_date) ==
    [r EXCEPT !.ms = [k \in 1..Len(r.ms) |->
        IF r.ms[k].id = milestoneId
        THEN [r.ms[k] EXCEPT !.start_date = start_date, !.due_date = due_date]
        ELSE r.ms[k]]]

RemoteUpdateIssue(r, iid, start_date, due_date) ==
    [r EXCEPT !.is = [k \in 1..Len(r.is) |->
        IF r.is[k].iid = iid
        THEN [r.is[k] EXCEPT !.start_date = start_date, !.due_date = due_date]
        ELSE r.is[k]]]

RemoteHas(r, e) ==
    IF e.taskId.kind = "milestone"
    THEN \E k \in 1..Len(r.ms) : r.ms[k].id = e.target
    ELSE \E k \in 1..Len(r.is) : r.is[k].iid = e.target

\* Error messages a failing remote call carries.
Msgs == {"GitLab API error: 500"}
NoError == "null"

----------------------------------------------------------------------------
(* Filter options and the preference store *)

IssueStates == {"opened", "closed", "all"}

\* setMonth(getMonth() + n): a month is taken as 30 days.
AddMonths(date, n) == date + n * Days(30)

getDefaultDateRange(today) ==
    [startDate |-> AddMonths(today, -1), endDate |-> AddMonths(today, 2)]

defaultFilterOptions(today) ==
    [issueState |-> "opened", dateRange |-> getDefaultDateRange(today),
     selectedMilestoneIds |-> <<>>]

toISOString(date) == TimeStr(date \div TicksPerDay, date % TicksPerDay)

\* The item under FILTER_STORAGE_KEY is absent (<<>>) or one text. A text is
\* "invalid" (JSON.parse throws), "other" (JSON that is no object: null, a number,
\* a string, an array) or an "object", whose fields may be missing: issueState
\* "undefined", hasDateRange FALSE, hasIds FALSE.
StoredObject(issueState, hasDateRange, startDate, endDate, hasIds, ids) ==
    [json |-> "object", issueState |-> issueState, hasDateRange |-> hasDateRange,
     dateRange |-> [startDate |-> startDate, endDate |-> endDate],
     hasIds |-> hasIds, selectedMilestoneIds |-> ids]

StoredText(json) ==
    [json |-> json, issueState |-> "undefined", hasDateRange |-> FALSE,
     dateRange |-> [startDate |-> NullStr, endDate |-> NullStr],
     hasIds |-> FALSE, selectedMilestoneIds |-> <<>>]

\* saveFilterToStorage throws (RangeError of toISOString) on an invalid Date.
saveThrows(options) ==
    \/ options.dateRange.startDate = InvalidDate
    \/ options.dateRange.endDate = InvalidDate

\* saveFilterToStorage with the day of a date bound stored, not its timestamp.
saveFilterToStorage_DateOnly(options) ==
    << StoredObject(options.issueState, TRUE,
                    IF options.dateRange.startDate # NoDate
                    THEN formatDate(options.dateRange.startDate) ELSE NullStr,
                    IF options.dateRange.endDate # NoDate
                    THEN formatDate(options.dateRange.endDate) ELSE NullStr,
                    TRUE, options.selectedMilestoneIds) >>

\* saveFilterToStorage: the value written under FILTER_STORAGE_KEY.
saveFilterToStorage(options) ==
    << StoredObject(options.issueState, TRUE,
                    IF options.dateRange.startDate # NoDate
                    THEN toISOString(options.dateRange.startDate) ELSE NullStr,
                    IF options.dateRange.endDate # NoDate
                    THEN toISOString(options.dateRange.endDate) ELSE NullStr,
                    TRUE, options.selectedMilestoneIds) >>

\* stored ? new Date(stored) : null
newDateOrNull(dateStr) ==
    IF dateStr.k = "null" THEN NoDate
    ELSE IF dateStr.k = "bad" THEN InvalidDate
    ELSE Days(dateStr.d) + dateStr.t

\* loadFilterFromStorage: <<>> for null, else the one FilterOptions read.
loadFilterFromStorage(st) ==
    IF st = <<>> THEN <<>>
    ELSE LET parsed == st[1] IN
         IF parsed.json # "object" THEN <<>>
         ELSE IF ~parsed.hasDateRange THEN <<>>
         ELSE << [issueState |-> parsed.issueState,
                  dateRange |-> [startDate |-> newDateOrNull(parsed.dateRange.startDate),
                                 endDate |-> newDateOrNull(parsed.dateRange.endDate)],
                  selectedMilestoneIds |-> IF parsed.hasIds THEN parsed.selectedMilestoneIds
                                           ELSE <<>>] >>

getInitialFilterOptions(st, today) ==
    IF loadFilterFromStorage(st) # <<>> THEN loadFilterFromStorage(st)[1]
    ELSE defaultFilterOptions(today)

\* The dates the date pickers of the header offer.
StartPicks == {Days(103)}
EndPicks == {NoDate}

\* The milestones the header lists: those of the milestones state.
MilestoneChoices == {milestones[k].id : k \in 1..Len(milestones)}

\* The app renders: the header's date pickers format the two date bounds, which
\* throws on an invalid Date and takes the whole tree down.
Renders(current) ==
    /\ current.dateRange.startDate # InvalidDate
    /\ current.dateRange.endDate # InvalidDate

\* The options the header's handlers pass to setFilterOptions.
HeaderOptions(current) ==
    IF ~Renders(current) THEN {} ELSE
    {[current EXCEPT !.issueState = s] : s \in IssueStates \ {current.issueState}}
    \cup {[current EXCEPT !.dateRange.startDate = d] : d \in StartPicks}
    \cup {[current EXCEPT !.dateRange.endDate = d] : d \in EndPicks}
    \cup {[current EXCEPT !.selectedMilestoneIds =
              IF Includes(current.selectedMilestoneIds, m)
              THEN SelectSeq(current.selectedMilestoneIds, LAMBDA x : x # m)
              ELSE Append(current.selectedMilestoneIds, m)] : m \in MilestoneChoices}
    \cup {[current EXCEPT !.selectedMilestoneIds = <<>>] :
              x \in {y \in {1} : Len(current.selectedMilestoneIds) > 0}}

----------------------------------------------------------------------------
(* The hook useGitLabData *)

NoLoadData == [ms |-> <<>>, ls |-> <<>>, is |-> <<>>]

Load(by, state, milestoneIds, phase) ==
    [by |-> by, state |-> state, milestoneIds |-> milestoneIds, phase |-> phase,
     msg |-> NoError, data |-> NoLoadData]

InFlight(l) == l.phase \in {"ml", "issues", "resp"}

\* The hook's state at its first render.
HookInit ==
    /\ allTasks = <<>>
    /\ tasks = <<>>
    /\ milestones = <<>>
    /\ issues = <<>>
    /\ labels = <<>>
    /\ loading = TRUE
    /\ error = NoError
    /\ \E today \in Nows : filterOptions = defaultFilterOptions(today)
    /\ storage = <<>>
    /\ initialLoadDone = FALSE
    /\ useDemoDataRef = FALSE
    /\ loads = <<>>
    /\ edits = <<>>
    /\ remote = [ms |-> RemoteMilestones0, is |-> RemoteIssues0]
    /\ tasksGen = 0
    /\ nOps = 0

Init ==
    /\ HookInit
    /\ fIn = <<>> /\ fOpts = defaultFilterOptions(0)
    /\ fDateOut = <<>> /\ fOut = <<>> /\ fDone = FALSE

\* loadData(options) up to its first await: the call of generation Len(loads) + 1.
\* With useDemoDataRef set it shows the demonstration dataset and returns.
loadData(by, stateFilter, milestoneIds) ==
    /\ error' = NoError
    /\ IF useDemoDataRef
       THEN /\ \E today \in Nows : allTasks' = getDemoTasks(today)
            /\ loading' = FALSE
            /\ loads' = Append(loads, Load(by, stateFilter, milestoneIds, "demo"))
            /\ tasksGen' = Len(loads) + 1
       ELSE /\ loading' = TRUE
            /\ loads' = Append(loads, Load(by, stateFilter, milestoneIds, "ml"))
            /\ UNCHANGED <<allTasks, tasksGen>>
    /\ UNCHANGED <<milestones, issues, labels, useDemoDataRef, edits, remote>>

\* The mount effect: the first loadData(), once, after the first render.
Mount ==
    /\ ~initialLoadDone
    /\ Renders(filterOptions)
    /\ initialLoadDone' = TRUE
    /\ loadData("mount", filterOptions.issueState, filterOptions.selectedMilestoneIds)
    /\ UNCHANGED <<filterOptions, storage, nOps, filterVars>>
    /\ tasks' = FilterEffect(allTasks', filterOptions')

\* refresh(): loadData with the current issue state and milestone selection. It is
\* called by the header's refresh button, disabled while loading, and by the retry
\* button of the error banner, shown while an error is set.
Refresh ==
    /\ initialLoadDone
    /\ ~loading \/ error # NoError
    /\ nOps < MaxOps
    /\ nOps' = nOps + 1
    /\ loadData("refresh", filterOptions.issueState, filterOptions.selectedMilestoneIds)
    /\ UNCHANGED <<filterOptions, storage, initialLoadDone, filterVars>>
    /\ tasks' = FilterEffect(allTasks', filterOptions')

\* setFilterOptions(options), with the filter effect that follows it. When
\* saveFilterToStorage throws, the state is set and nothing after it runs.
setFilterOptions(options) ==
    LET stateChanged == options.issueState # filterOptions.issueState
        milestonesChanged ==
            \/ Len(options.selectedMilestoneIds) # Len(filterOptions.selectedMilestoneIds)
            \/ \E k \in 1..Len(options.selectedMilestoneIds) :
                  ~Includes(filterOptions.selectedMilestoneIds, options.selectedMilestoneIds[k])
    IN /\ initialLoadDone
       /\ nOps < MaxOps
       /\ nOps' = nOps + 1
       /\ filterOptions' = options
       /\ storage' = IF saveThrows(options) THEN storage ELSE saveFilterToStorage(options)
       /\ IF (stateChanged \/ milestonesChanged) /\ ~saveThrows(options)
          THEN loadData("filter", options.issueState, options.selectedMilestoneIds)
          ELSE UNCHANGED <<allTasks, milestones, issues, labels, loading, error,
                           useDemoDataRef, loads, edits, remote, tasksGen>>
       /\ UNCHANGED <<initialLoadDone, filterVars>>
       /\ tasks' = FilterEffect(allTasks', filterOptions')

\* Promise.all([fetchAllMilestones(), fetchLabels()]) resolves: setMilestones, setLabels.
LoadRecvMilestonesLabels(g) ==
    /\ loads[g].phase = "ml"
    /\ milestones' = remote.ms
    /\ labels' = RemoteLabels
    /\ loads' = [loads EXCEPT ![g].phase = "issues",
                              ![g].data = [ms |-> remote.ms, ls |-> RemoteLabels, is |-> <<>>]]
    /\ UNCHANGED <<allTasks, tasks, issues, loading, error, filterOptions, storage,
                   initialLoadDone, useDemoDataRef, edits, remote, tasksGen, nOps,
                   filterVars>>

\* The remote answers the issues query of load g from its state at that moment.
RemoteServeIssues(g) ==
    LET l == loads[g]
        selectedMilestones == SelectSeq(l.data.ms, LAMBDA m : Includes(l.milestoneIds, m.id))
        milestoneTitles == [k \in 1..Len(selectedMilestones) |-> selectedMilestones[k].id]
        issuesData == IF Len(l.milestoneIds) > 0
                      THEN fetchAllIssuesAsWorkItems(remote, l.state, milestoneTitles)
                      ELSE fetchAllIssuesAsWorkItems(remote, l.state, <<>>)
    IN /\ l.phase = "issues"
       /\ loads' = [loads EXCEPT ![g].phase = "resp", ![g].data.is = issuesData]
       /\ UNCHANGED <<allTasks, tasks, milestones, issues, labels, loading, error,
                      filterOptions, storage, initialLoadDone, useDemoDataRef, edits,
                      remote, tasksGen, nOps, filterVars>>

\* The issues query of load g resolves: enrich, build, setIssues, setAllTasks,
\* and setLoading(false) of the finally block.
LoadRecvIssues(g) ==
    LET l == loads[g]
        enrichedIssues == enrichIssuesWithLabels(l.data.is, l.data.ls)
    IN /\ l.phase = "resp"
       /\ issues' = enrichedIssues
       /\ \E today \in Nows : allTasks' = convertToGanttTasks(l.data.ms, enrichedIssues, today)
       /\ loading' = FALSE
       /\ tasksGen' = g
       /\ loads' = [loads EXCEPT ![g].phase = "done", ![g].data = NoLoadData]
       /\ UNCHANGED <<milestones, labels, error, filterOptions, storage, initialLoadDone,
                      useDemoDataRef, edits, remote, nOps, filterVars>>
       /\ tasks' = FilterEffect(allTasks', filterOptions')

\* LoadFail without the fallback to the demonstration dataset.
LoadFail_NoFallback(g, msg) ==
    /\ loads[g].phase \in {"ml", "issues"}
    /\ error' = msg
    /\ useDemoDataRef' = TRUE
    /\ loading' = FALSE
    /\ loads' = [loads EXCEPT ![g].phase = "failed", ![g].msg = msg, ![g].data = NoLoadData]
    /\ UNCHANGED <<allTasks, tasks, tasksGen, milestones, issues, labels, filterOptions,
                   storage, initialLoadDone, edits, remote, nOps, filterVars>>

\* LoadFail with the task list built from the results that did arrive.
LoadFail_BuildPartial(g, msg) ==
    /\ loads[g].phase \in {"ml", "issues"}
    /\ error' = msg
    /\ \E today \in Nows :
          allTasks' = IF loads[g].phase = "issues"
                      THEN convertToGanttTasks(loads[g].data.ms, <<>>, today)
                      ELSE getDemoTasks(today)
    /\ useDemoDataRef' = TRUE
    /\ loading' = FALSE
    /\ tasksGen' = g
    /\ loads' = [loads EXCEPT ![g].phase = "failed", ![g].msg = msg, ![g].data = NoLoadData]
    /\ UNCHANGED <<milestones, issues, labels, filterOptions, storage, initialLoadDone,
                   edits, remote, nOps, filterVars>>
    /\ tasks' = FilterEffect(allTasks', filterOptions')

\* A remote list call of load g fails with message msg: the catch and finally blocks.
LoadFail(g, msg) ==
    /\ loads[g].phase \in {"ml", "issues"}
    /\ error' = msg
    /\ \E today \in Nows : allTasks' = getDemoTasks(today)
    /\ useDemoDataRef' = TRUE
    /\ loading' = FALSE
    /\ tasksGen' = g
    /\ loads' = [loads EXCEPT ![g].phase = "failed", ![g].msg = msg, ![g].data = NoLoadData]
    /\ UNCHANGED <<milestones, issues, labels, filterOptions, storage, initialLoadDone,
                   edits, remote, nOps, filterVars>>
    /\ tasks' = FilterEffect(allTasks', filterOptions')

----------------------------------------------------------------------------
(* The Edit Coordinator *)

\* updateTaskDates with the issue pattern matched as a prefix of the id.
updateTaskDates_PrefixMatch(taskId, start, end, startSrc, endSrc) ==
    LET call(target, status) ==
            [taskId |-> taskId, target |-> target, start |-> start, end |-> end,
             start_date |-> formatDate(start), due_date |-> formatDate(end),
             startSrc |-> startSrc, endSrc |-> endSrc,
             status |-> status, msg |-> NoError, gen |-> tasksGen]
        found == {i \in 1..Len(issues) : issues[i].id = taskId.n}
        first == CHOOSE i \in found : \A j \in found : i <= j
    IN /\ edits' = IF taskId.kind = "milestone"
                   THEN Append(edits, call(taskId.n, "inflight"))
                   ELSE IF taskId.kind \notin {"issue", "subtask"}
                   THEN Append(edits, call(0, "ignored"))
                   ELSE IF found = {}
                   THEN Append(edits, call(0, "ignored"))
                   ELSE Append(edits, call(issues[first].iid, "inflight"))
       /\ nOps < MaxOps
       /\ nOps' = nOps + 1
       /\ UNCHANGED <<allTasks, tasks, milestones, issues, labels, loading, error,
                      filterOptions, storage, initialLoadDone, useDemoDataRef, loads,
                      remote, tasksGen, filterVars>>

\* updateTaskDates(taskId, start, end) up to its await: the remote update call, or
\* the return without one ("ignored") for an id that is neither milestone-{digits}
\* nor issue-{digits}, or for an issue absent from the snapshot.
\* startSrc and endSrc record where the chart took the two values from.
updateTaskDates(taskId, start, end, startSrc, endSrc) ==
    LET call(target, status) ==
            [taskId |-> taskId, target |-> target, start |-> start, end |-> end,
             start_date |-> formatDate(start), due_date |-> formatDate(end),
             startSrc |-> startSrc, endSrc |-> endSrc,
             status |-> status, msg |-> NoError, gen |-> tasksGen]
        found == {i \in 1..Len(issues) : issues[i].id = taskId.n}
        first == CHOOSE i \in found : \A j \in found : i <= j
    IN /\ edits' = IF taskId.kind = "milestone"
                   THEN Append(edits, call(taskId.n, "inflight"))
                   ELSE IF taskId.kind # "issue"
                   THEN Append(edits, call(0, "ignored"))
                   ELSE IF found = {}
                   THEN Append(edits, call(0, "ignored"))
                   ELSE Append(edits, call(issues[first].iid, "inflight"))
       /\ nOps < MaxOps
       /\ nOps' = nOps + 1
       /\ UNCHANGED <<allTasks, tasks, milestones, issues, labels, loading, error,
                      filterOptions, storage, initialLoadDone, useDemoDataRef, loads,
                      remote, tasksGen, filterVars>>

\* The chart's update-task handler at the end of a drag on row k. The chart is given
\* the filter's date range, or none.
UpdateTask(k, drag, filterDateRange) ==
    \E today \in Nows :
        LET row == svarTasks(tasks, filterDateRange, today)[k]
            originalId == row.originalId
            isIssue == originalId.kind = "issue"
            isMilestone == originalId.kind = "milestone"
            start == GestureStart(row, drag[1], drag[2])
            end == GestureEnd(row, drag[1], drag[2])
        IN /\ initialLoadDone
           /\ start < end
           /\ isIssue \/ isMilestone
           /\ updateTaskDates(originalId, start, end,
                              StartSource(row, drag[1]), EndSource(row, drag[1]))

\* PatchTask with the checklist sub-items of the node moved along with it.
PatchTask_WithSubtasks(ts, e) ==
    [k \in 1..Len(ts) |->
        IF ts[k].id = e.taskId \/ ts[k].parent = e.taskId
        THEN [ts[k] EXCEPT !.start = e.start, !.end = e.end,
                           !.hasOriginalStartDate = TRUE, !.hasOriginalDueDate = TRUE]
        ELSE ts[k]]

\* The patch of updateTaskDates after a confirmed remote update.
PatchTask(ts, e) ==
    [k \in 1..Len(ts) |->
        IF ts[k].id = e.taskId
        THEN [ts[k] EXCEPT !.start = e.start, !.end = e.end,
                           !.hasOriginalStartDate = TRUE, !.hasOriginalDueDate = TRUE]
        ELSE ts[k]]

\* The remote update call of edit k succeeds: the remote holds the calendar dates
\* sent, and the hook patches the task list.
EditSucceed(k) ==
    LET e == edits[k]
    IN /\ e.status = "inflight"
       /\ RemoteHas(remote, e)
       /\ remote' = IF e.taskId.kind = "milestone"
                    THEN RemoteUpdateMilestone(remote, e.target, e.start_date, e.due_date)
                    ELSE RemoteUpdateIssue(remote, e.target, e.start_date, e.due_date)
       /\ allTasks' = PatchTask(allTasks, e)
       /\ edits' = [edits EXCEPT ![k].status = "ok"]
       /\ UNCHANGED <<milestones, issues, labels, loading, error, filterOptions, storage,
                      initialLoadDone, useDemoDataRef, loads, tasksGen, nOps,
                      filterVars>>
       /\ tasks' = FilterEffect(allTasks', filterOptions')

\* EditFail with the patch applied although the remote refused the update.
EditFail_Optimistic(k, msg) ==
    /\ edits[k].status = "inflight"
    /\ error' = msg
    /\ allTasks' = PatchTask(allTasks, edits[k])
    /\ edits' = [edits EXCEPT ![k].status = "failed", ![k].msg = msg]
    /\ UNCHANGED <<milestones, issues, labels, loading, filterOptions,
                   storage, initialLoadDone, useDemoDataRef, loads, remote, tasksGen,
                   nOps, filterVars>>
    /\ tasks' = FilterEffect(allTasks', filterOptions')

\* The remote update call of edit k fails with message msg: setError only.
EditFail(k, msg) ==
    /\ edits[k].status = "inflight"
    /\ error' = msg
    /\ edits' = [edits EXCEPT ![k].status = "failed", ![k].msg = msg]
    /\ UNCHANGED <<allTasks, tasks, milestones, issues, labels, loading, filterOptions,
                   storage, initialLoadDone, useDemoDataRef, loads, remote, tasksGen,
                   nOps, filterVars>>

Next ==
    \/ Mount
    \/ Refresh
    \/ \E options \in HeaderOptions(filterOptions) : setFilterOptions(options)
    \/ \E g \in 1..Len(loads) : LoadRecvMilestonesLabels(g)
    \/ \E g \in 1..Len(loads) : RemoteServeIssues(g)
    \/ \E g \in 1..Len(loads) : LoadRecvIssues(g)
    \/ \E g \in 1..Len(loads), msg \in Msgs : LoadFail(g, msg)
    \/ \E k \in 1..Len(tasks), drag \in Drags :
          UpdateTask(k, drag, filterOptions.dateRange)
    \/ \E k \in 1..Len(edits) : EditSucceed(k)
    \/ \E k \in 1..Len(edits), msg \in Msgs : EditFail(k, msg)

Spec == Init /\ [][Next]_vars

----------------------------------------------------------------------------
(* The loads of the hook: mount, refresh and filter changes, without edits *)

LoadNext ==
    \/ Mount
    \/ Refresh
    \/ \E options \in HeaderOptions(filterOptions) : setFilterOptions(options)
    \/ \E g \in 1..Len(loads) : LoadRecvMilestonesLabels(g)
    \/ \E g \in 1..Len(loads) : RemoteServeIssues(g)
    \/ \E g \in 1..Len(loads) : LoadRecvIssues(g)
    \/ \E g \in 1..Len(loads), msg \in Msgs : LoadFail(g, msg)

SpecLoad == Init /\ [][LoadNext]_vars

----------------------------------------------------------------------------
(* The filter as a function: one application to a built task list *)

FilterMilestones ==
    << [id |-> 7, start_date |-> DateStr(100), due_date |-> DateStr(110)],
       [id |-> 9, start_date |-> NullStr, due_date |-> NullStr] >>

FilterIssueA ==
    { [id |-> 41, iid |-> 1, state |-> "opened", milestone |-> m,
       start_date |-> sd, due_date |-> dd, created_at |-> TimeStr(99, 1),
       tcs |-> NoTcs, labelObjects |-> <<>>, tasks |-> << [checked |-> TRUE] >>] :
      m \in {0, 7, 9},
      sd \in {NullStr, DateStr(105), DateStr(106)},
      dd \in {NullStr, DateStr(102), DateStr(103), DateStr(107)} }

FilterIssueB ==
    { [id |-> 42, iid |-> 2, state |-> "closed", milestone |-> m,
       start_date |-> sd, due_date |-> dd, created_at |-> TimeStr(101, 1),
       tcs |-> NoTcs, labelObjects |-> <<>>, tasks |-> <<>>] :
      m \in {0, 7},
      sd \in {NullStr, DateStr(104)},
      dd \in {NullStr, DateStr(109)} }

\* The task lists the filter is applied to: builds, and the demonstration dataset.
FilterInputs ==
    { convertToGanttTasks(FilterMilestones, <<a, b>>, today) :
        a \in FilterIssueA, b \in FilterIssueB, today \in Nows }
    \cup { getDemoTasks(today) : today \in Nows }

FilterStates ==
    { [issueState |-> "opened", dateRange |-> [startDate |-> sd, endDate |-> ed],
       selectedMilestoneIds |-> sel] :
      sd \in {NoDate, Days(103)}, ed \in {NoDate, Days(105)},
      sel \in {<<>>, <<7>>, <<9, 7>>} }

FilterInit ==
    /\ HookInit
    /\ fIn \in FilterInputs
    /\ fOpts \in FilterStates
    /\ fDateOut = <<>> /\ fOut = <<>> /\ fDone = FALSE

\* The filter effect applied to allTasks = fIn under filterOptions = fOpts.
FilterApply ==
    /\ ~fDone
    /\ fDateOut' = filterTasksByDateRange(fIn, fOpts.dateRange)
    /\ fOut' = FilterEffect(fIn, fOpts)
    /\ fDone' = TRUE
    /\ UNCHANGED <<fIn, fOpts, hookVars>>

FilterNext == FilterApply

SpecFilter == FilterInit /\ [][FilterNext]_vars

----------------------------------------------------------------------------
(* The preference store: sessions that start from a stored item *)

\* The items a session may find under FILTER_STORAGE_KEY.
StoredValues ==
    {<<>>, << StoredText("invalid") >>, << StoredText("other") >>}
    \cup { << StoredObject(s, hdr, sd, ed, hi, ids) >> :
             s \in {"opened", "closed", "locked", "undefined"},
             hdr \in BOOLEAN,
             sd \in {NullStr, BadStr, TimeStr(90, 1)},
             ed \in {NullStr, TimeStr(120, 0)},
             hi \in BOOLEAN,
             ids \in {<<>>, <<7>>} }

\* The hook at its first render of a session that finds item st.
SessionStart(st) ==
    /\ allTasks = <<>>
    /\ tasks = <<>>
    /\ milestones = <<>>
    /\ issues = <<>>
    /\ labels = <<>>
    /\ loading = TRUE
    /\ error = NoError
    /\ \E today \in Nows : filterOptions = getInitialFilterOptions(st, today)
    /\ storage = st
    /\ initialLoadDone = FALSE
    /\ useDemoDataRef = FALSE
    /\ loads = <<>>
    /\ edits = <<>>
    /\ remote = [ms |-> RemoteMilestones0, is |-> RemoteIssues0]
    /\ tasksGen = 0

StoreInit ==
    /\ \E st \in StoredValues : SessionStart(st)
    /\ nOps = 0
    /\ fIn = <<>> /\ fOpts = defaultFilterOptions(0)
    /\ fDateOut = <<>> /\ fOut = <<>> /\ fDone = FALSE

\* The page is loaded again: a new session that finds the item the last one left.
Reload ==
    /\ nOps < MaxOps
    /\ nOps' = nOps + 1
    /\ allTasks' = <<>>
    /\ tasks' = <<>>
    /\ milestones' = <<>>
    /\ issues' = <<>>
    /\ labels' = <<>>
    /\ loading' = TRUE
    /\ error' = NoError
    /\ \E today \in Nows : filterOptions' = getInitialFilterOptions(storage, today)
    /\ initialLoadDone' = FALSE
    /\ useDemoDataRef' = FALSE
    /\ loads' = <<>>
    /\ edits' = <<>>
    /\ tasksGen' = 0
    /\ UNCHANGED <<storage, remote, filterVars>>

StoreNext ==
    \/ Mount
    \/ \E options \in HeaderOptions(filterOptions) : setFilterOptions(options)
    \/ Reload

SpecStore == StoreInit /\ [][StoreNext]_vars

----------------------------------------------------------------------------
(* Checklist extraction as a function: one issue with any description *)

Descriptions == UNION {[1..n -> Tokens] : n \in 0..MaxDescLen}

ParseIssue(description) ==
    [id |-> 41, iid |-> 1, state |-> "opened", milestone |-> 7,
     start_date |-> NullStr, due_date |-> DateStr(104),
     created_at |-> TimeStr(99, 1), tcs |-> NoTcs, labels |-> <<"bug">>,
     description |-> description]

\* The hook while the issues query of its first load is answered.
ParseInit ==
    /\ \E d \in Descriptions : remote = [ms |-> RemoteMilestones0, is |-> <<ParseIssue(d)>>]
    /\ milestones = RemoteMilestones0
    /\ labels = RemoteLabels
    /\ issues = <<>>
    /\ allTasks = <<>>
    /\ tasks = <<>>
    /\ loading = TRUE
    /\ error = NoError
    /\ \E today \in Nows : filterOptions = defaultFilterOptions(today)
    /\ storage = <<>>
    /\ initialLoadDone = TRUE
    /\ useDemoDataRef = FALSE
    /\ loads = <<>>
    /\ edits = <<>>
    /\ tasksGen = 0
    /\ nOps = 0
    /\ fIn = <<>> /\ fOpts = defaultFilterOptions(0)
    /\ fDateOut = <<>> /\ fOut = <<>> /\ fDone = FALSE

\* enrichIssuesWithLabels(issuesData, labelsData), the build, setIssues,
\* setAllTasks and setLoading(false).
ParseApply ==
    /\ loading
    /\ issues' = enrichIssuesWithLabels(
                     fetchAllIssuesAsWorkItems(remote, "opened", <<>>), labels)
    /\ \E today \in Nows : allTasks' = convertToGanttTasks(milestones, issues', today)
    /\ tasks' = FilterEffect(allTasks', filterOptions)
    /\ loading' = FALSE
    /\ UNCHANGED <<milestones, labels, error, filterOptions, storage, initialLoadDone,
                   useDemoDataRef, loads, edits, remote, tasksGen, nOps, filterVars>>

ParseNext == ParseApply

SpecParse == ParseInit /\ [][ParseNext]_vars

----------------------------------------------------------------------------
(* The Edit Coordinator as a function: updateTaskDates called with any id *)

\* The ids updateTaskDates is called with, and the dates.
EditIds == {MilestoneId(7), IssueId(41), IssueId(42), SubtaskId(41, 0), OtherId(41)}
EditStarts == {Days(101), Days(102) + 1}
EditEnds == {Days(106)}

\* The hook after the first load has completed.
EditInit ==
    /\ milestones = RemoteMilestones0
    /\ labels = RemoteLabels
    /\ remote = [ms |-> RemoteMilestones0, is |-> RemoteIssues0]
    /\ issues = enrichIssuesWithLabels(
                    fetchAllIssuesAsWorkItems(remote, "opened", <<>>), RemoteLabels)
    /\ \E today \in Nows :
          /\ filterOptions = defaultFilterOptions(today)
          /\ allTasks = convertToGanttTasks(milestones, issues, today)
    /\ tasks = FilterEffect(allTasks, filterOptions)
    /\ loading = FALSE
    /\ error = NoError
    /\ storage = <<>>
    /\ initialLoadDone = TRUE
    /\ useDemoDataRef = FALSE
    /\ loads = << Load("mount", "opened", <<>>, "done") >>
    /\ edits = <<>>
    /\ tasksGen = 1
    /\ nOps = 0
    /\ fIn = <<>> /\ fOpts = defaultFilterOptions(0)
    /\ fDateOut = <<>> /\ fOut = <<>> /\ fDone = FALSE

\* A call of updateTaskDates through the hook's interface.
EditCall(taskId, start, end) == updateTaskDates(taskId, start, end, "gesture", "gesture")

EditNext ==
    \/ \E taskId \in EditIds, start \in EditStarts, end \in EditEnds :
          EditCall(taskId, start, end)
    \/ \E k \in 1..Len(edits) : EditSucceed(k)
    \/ \E k \in 1..Len(edits), msg \in Msgs : EditFail(k, msg)

SpecEdit == EditInit /\ [][EditNext]_vars

----------------------------------------------------------------------------
(* The Task Tree Builder as a function: one build from fetched lists *)

\* Milestones a fetch returns: dates valid, absent, malformed, or due on the start.
BuildMilestone7 ==
    { [id |-> 7, start_date |-> sd, due_date |-> dd] :
      sd \in {DateStr(100), NullStr, BadStr},
      dd \in {DateStr(110), DateStr(100), NullStr} }

BuildMilestone9 == [id |-> 9, start_date |-> NullStr, due_date |-> NullStr]

BuildMilestoneLists ==
    {<<>>} \cup {<<m>> : m \in BuildMilestone7}
           \cup {<<m, BuildMilestone9>> : m \in BuildMilestone7}

\* Enriched issues a fetch returns. The id of an issue may equal the id of a
\* milestone; the milestone an issue carries need not be among those fetched.
BuildIssueA ==
    { [id |-> n, iid |-> 1, state |-> "opened", milestone |-> m,
       start_date |-> sd, due_date |-> dd, created_at |-> ca,
       tcs |-> NoTcs, labelObjects |-> <<>>, tasks |-> cl] :
      n \in {41, 7},
      m \in {0, 7, 9},
      sd \in {NullStr, BadStr, DateStr(105)},
      dd \in {NullStr, BadStr, DateStr(102), DateStr(105), DateStr(107)},
      ca \in {TimeStr(99, 1), TimeStr(103, 1), BadStr},
      cl \in {<<>>, << [checked |-> TRUE], [checked |-> FALSE] >>} }

BuildIssueB ==
    { [id |-> 42, iid |-> 2, state |-> "closed", milestone |-> m,
       start_date |-> NullStr, due_date |-> NullStr, created_at |-> TimeStr(101, 1),
       tcs |-> NoTcs, labelObjects |-> <<>>, tasks |-> << [checked |-> FALSE] >>] :
      m \in {0, 7} }

BuildIssueLists ==
    {<<a>> : a \in BuildIssueA} \cup {<<a, b>> : a \in BuildIssueA, b \in BuildIssueB}

\* The hook holding the lists of a load whose issues query has just resolved.
BuildInit ==
    /\ milestones \in BuildMilestoneLists
    /\ issues \in BuildIssueLists
    /\ allTasks = <<>>
    /\ tasks = <<>>
    /\ labels = RemoteLabels
    /\ loading = TRUE
    /\ error = NoError
    /\ \E today \in Nows : filterOptions = defaultFilterOptions(today)
    /\ storage = <<>>
    /\ initialLoadDone = TRUE
    /\ useDemoDataRef = FALSE
    /\ loads = <<>>
    /\ edits = <<>>
    /\ remote = [ms |-> RemoteMilestones0, is |-> RemoteIssues0]
    /\ tasksGen = 0
    /\ nOps = 0
    /\ fIn = <<>> /\ fOpts = defaultFilterOptions(0)
    /\ fDateOut = <<>> /\ fOut = <<>> /\ fDone = FALSE

\* convertToGanttTasks(milestonesData, enrichedIssues), setAllTasks, the filter
\* effect and setLoading(false).
BuildApply ==
    /\ loading
    /\ \E today \in Nows : allTasks' = convertToGanttTasks(milestones, issues, today)
    /\ tasks' = FilterEffect(allTasks', filterOptions)
    /\ loading' = FALSE
    /\ UNCHANGED <<milestones, issues, labels, error, filterOptions, storage,
                   initialLoadDone, useDemoDataRef, loads, edits, remote, tasksGen,
                   nOps, filterVars>>

BuildNext == BuildApply

SpecBuild == BuildInit /\ [][BuildNext]_vars

----------------------------------------------------------------------------
(* The progress of an issue: one build from one issue with any completion status *)

\* The task_completion_status values of an issue: absent, or a count with the
\* number of completed tasks among them.
CompletionStatuses ==
    {NoTcs} \cup UNION { { [count |-> n, completed_count |-> c] : c \in 0..n } :
                          n \in 0..MaxTaskCount }

ProgressIssues ==
    { [id |-> 41, iid |-> 1, state |-> s, milestone |-> 7,
       start_date |-> NullStr, due_date |-> DateStr(104), created_at |-> TimeStr(99, 1),
       tcs |-> tcs, labelObjects |-> <<>>, tasks |-> <<>>] :
      s \in {"opened", "closed"}, tcs \in CompletionStatuses }

\* The hook holding the lists of a load whose issues query has just resolved.
ProgressInit ==
    /\ milestones = RemoteMilestones0
    /\ \E i \in ProgressIssues : issues = <<i>>
    /\ allTasks = <<>>
    /\ tasks = <<>>
    /\ labels = RemoteLabels
    /\ loading = TRUE
    /\ error = NoError
    /\ \E today \in Nows : filterOptions = defaultFilterOptions(today)
    /\ storage = <<>>
    /\ initialLoadDone = TRUE
    /\ useDemoDataRef = FALSE
    /\ loads = <<>>
    /\ edits = <<>>
    /\ remote = [ms |-> RemoteMilestones0, is |-> RemoteIssues0]
    /\ tasksGen = 0
    /\ nOps = 0
    /\ fIn = <<>> /\ fOpts = defaultFilterOptions(0)
    /\ fDateOut = <<>> /\ fOut = <<>> /\ fDone = FALSE

ProgressNext == BuildApply

SpecProgress == ProgressInit /\ [][ProgressNext]_vars

----------------------------------------------------------------------------
(* Claims about the filter, under SpecFilter *)

IsIssueNode(t) == t.type = "task" /\ ~t.isSubtask
IsSubtaskNode(t) == t.type = "task" /\ t.isSubtask
IsMilestoneNode(t) == t.type = "summary"

DateBoundSet(dateRange) == dateRange.startDate # NoDate \/ dateRange.endDate # NoDate

\* The overlap test as the specification words it.
Overlaps(t, dateRange) ==
    IF dateRange.startDate # NoDate /\ dateRange.endDate = NoDate
    THEN t.end >= dateRange.startDate
    ELSE IF dateRange.startDate = NoDate /\ dateRange.endDate # NoDate
    THEN t.start <= dateRange.endDate
    ELSE t.start <= dateRange.endDate /\ t.end >= dateRange.startDate

\* C8: with at least one date bound set, an issue node is in the date filter's
\* output iff it has neither an original start nor an original end, or its
\* [start, end] interval overlaps the filter window (one-sided when only one bound
\* is set); an issue with exactly one original date is tested with its inferred
\* other bound.
C8_IssueDateFilter ==
    (fDone /\ DateBoundSet(fOpts.dateRange)) =>
        \A t \in Range(fIn) :
            IsIssueNode(t) =>
                ((t \in Range(fDateOut)) <=>
                    (\/ (~t.hasOriginalStartDate /\ ~t.hasOriginalDueDate)
                     \/ Overlaps(t, fOpts.dateRange)))

\* C8 witness: with both bounds set, an issue with exactly one original date was
\* excluded by the test on its inferred start, and an issue with no original date
\* was kept.
C8_Witness ==
    /\ fDone
    /\ fOpts.dateRange.startDate # NoDate /\ fOpts.dateRange.endDate # NoDate
    /\ \E t \in Range(fIn) :
          /\ IsIssueNode(t) /\ ~t.hasOriginalStartDate /\ t.hasOriginalDueDate
          /\ t.end < fOpts.dateRange.startDate
          /\ t \notin Range(fDateOut)
    /\ \E t \in Range(fIn) :
          /\ IsIssueNode(t) /\ ~t.hasOriginalStartDate /\ ~t.hasOriginalDueDate
          /\ t \in Range(fDateOut)

\* C9: with at least one date bound set, a milestone node is in the date filter's
\* output iff at least one of its child issues is in it.
C9_MilestoneHasPassingChild ==
    (fDone /\ DateBoundSet(fOpts.dateRange)) =>
        \A m \in Range(fIn) :
            IsMilestoneNode(m) =>
                ((m \in Range(fDateOut)) <=>
                    (\E c \in Range(fIn) :
                        IsIssueNode(c) /\ c.parent = m.id /\ c \in Range(fDateOut)))

\* C9 witness: a milestone whose own range overlaps the window was excluded, having
\* children none of which passed.
C9_Witness ==
    /\ fDone
    /\ fOpts.dateRange.startDate # NoDate /\ fOpts.dateRange.endDate # NoDate
    /\ \E m \in Range(fIn) :
          /\ IsMilestoneNode(m)
          /\ m.hasOriginalStartDate /\ m.hasOriginalDueDate
          /\ m.start <= fOpts.dateRange.endDate /\ m.end >= fOpts.dateRange.startDate
          /\ \E c \in Range(fIn) : IsIssueNode(c) /\ c.parent = m.id
          /\ m \notin Range(fDateOut)

\* C10: in the visible list a checklist sub-item is present iff its parent issue is
\* present.
C10_SubtaskIffParent ==
    fDone =>
        \A s \in Range(fIn) :
            IsSubtaskNode(s) =>
                ((s \in Range(fOut)) <=>
                    (\E p \in Range(fOut) : IsIssueNode(p) /\ p.id = s.parent))

\* C30: filtering only selects and is idempotent: the visible list holds only
\* nodes of the task list, each unmodified, and filtering the visible list again
\* with the same FilterState (date-range filter, then milestone filter) yields
\* the visible list.
C30_FilterSelectsAndIsIdempotent ==
    fDone =>
        /\ \A t \in Range(fOut) : t \in Range(fIn)
        /\ FilterEffect(fOut, fOpts) = fOut

----------------------------------------------------------------------------
(* Claims about the Task Tree Builder, under SpecBuild *)

Built == ~loading

\* C12: every node of a build has its end strictly after its start.
C12_EndAfterStart ==
    Built => \A t \in Range(allTasks) : t.end > t.start

\* C13: in the output of one build every parent link resolves inside that output:
\* a sub-item's parent is an issue node of the output, and an issue's parent, when
\* present, is a milestone node of the output.
C13_ParentsResolve ==
    Built =>
        \A t \in Range(allTasks) :
            /\ IsSubtaskNode(t) =>
                   \E p \in Range(allTasks) : IsIssueNode(p) /\ p.id = t.parent
            /\ (IsIssueNode(t) /\ t.parent # NoId) =>
                   \E p \in Range(allTasks) : IsMilestoneNode(p) /\ p.id = t.parent

\* The issue nodes a build made of issue i.
IssueNodesOf(i) == {t \in Range(allTasks) : IsIssueNode(t) /\ t.id = IssueId(i.id)}

Valid(dateStr) == dateStr.k = "ok"

\* C15: for every issue the built node's start is the parsed start_date if valid,
\* else the parsed created_at if valid, else now; hasOriginalStartDate is true iff
\* start_date is present and parseable; end is the parsed due_date if valid, else
\* start + 7 days; hasOriginalDueDate is true iff due_date is present and parseable.
C15_IssueDateInference ==
    Built =>
        \A k \in 1..Len(issues) :
            LET i == issues[k] IN
            /\ IssueNodesOf(i) # {}
            /\ \A t \in IssueNodesOf(i) :
                  /\ t.hasOriginalStartDate <=> Valid(i.start_date)
                  /\ t.hasOriginalDueDate <=> Valid(i.due_date)
                  /\ Valid(i.start_date) => t.start = Days(i.start_date.d) + i.start_date.t
                  /\ (~Valid(i.start_date) /\ Valid(i.created_at)) =>
                         t.start = Days(i.created_at.d) + i.created_at.t
                  /\ (~Valid(i.start_date) /\ ~Valid(i.created_at)) => t.start \in Nows
                  /\ Valid(i.due_date) => t.end = Days(i.due_date.d) + i.due_date.t
                  /\ ~Valid(i.due_date) => t.end = t.start + 7 * TicksPerDay

\* C15 witness: a build holds an issue whose malformed start_date fell back to
\* created_at without the flag, and an issue without due_date ending 7 days on.
C15_Witness ==
    /\ Built
    /\ \E k \in 1..Len(issues) :
          /\ issues[k].start_date = BadStr /\ Valid(issues[k].created_at)
          /\ issues[k].due_date = BadStr
          /\ \E t \in IssueNodesOf(issues[k]) :
                /\ ~t.hasOriginalStartDate /\ ~t.hasOriginalDueDate
                /\ t.start = parseDate(issues[k].created_at)
                /\ t.end = t.start + Days(7)

----------------------------------------------------------------------------
(* Claims about the progress of an issue, under SpecProgress *)

\* C24: for every issue the built node's progress is round(100 * completed/count)
\* (the nearest integer, a half rounded up) when the issue carries a
\* task-completion status with count > 0, else 100 when its state is closed,
\* else 0; and it lies in 0..100.
C24_IssueProgress ==
    Built =>
        \A k \in 1..Len(issues) :
            LET i == issues[k] IN
            /\ IssueNodesOf(i) # {}
            /\ \A t \in IssueNodesOf(i) :
                  /\ t.progress \in 0..100
                  /\ i.tcs.count > 0 =>
                         /\ 2 * i.tcs.count * t.progress - i.tcs.count
                                <= 200 * i.tcs.completed_count
                         /\ 200 * i.tcs.completed_count
                                < 2 * i.tcs.count * t.progress + i.tcs.count
                  /\ (i.tcs.count = 0 /\ i.state = "closed") => t.progress = 100
                  /\ (i.tcs.count = 0 /\ i.state # "closed") => t.progress = 0

\* C24 witness: a closed issue with 1 of 8 tasks completed was built with
\* progress 13, the half of 12.5 rounded up and the closed state not consulted.
C24_Witness ==
    /\ Built
    /\ \E k \in 1..Len(issues) :
          /\ issues[k].state = "closed"
          /\ issues[k].tcs = [count |-> 8, completed_count |-> 1]
          /\ \E t \in IssueNodesOf(issues[k]) : t.progress = 13

----------------------------------------------------------------------------
(* Claims about updateTaskDates as a function of the id, under SpecEdit *)

\* C16: updateTaskDates issues a remote update call only for an id of the shape
\* milestone-{digits} or issue-{digits}; for a checklist sub-item id or any other
\* id it makes no remote call and changes neither the task list nor the error, and
\* the remote is written only on behalf of a milestone or issue id.
C16_OnlyMilestoneAndIssueIds ==
    [][ /\ Len(edits') > Len(edits) =>
              LET e == edits'[Len(edits')] IN
              /\ e.status = "inflight" => e.taskId.kind \in {"milestone", "issue"}
              /\ e.taskId.kind \notin {"milestone", "issue"} =>
                    /\ e.status = "ignored"
                    /\ allTasks' = allTasks /\ tasks' = tasks
                    /\ error' = error /\ remote' = remote
        /\ \A k \in 1..Len(edits) :
              edits[k].taskId.kind \notin {"milestone", "issue"} =>
                  edits'[k].status = "ignored"
        /\ remote' # remote =>
              \E k \in 1..Len(edits) :
                  /\ edits[k].status = "inflight" /\ edits'[k].status = "ok"
                  /\ edits[k].taskId.kind \in {"milestone", "issue"} ]_vars

\* C16 witness: updateTaskDates was called with a sub-item id and with an id of
\* another shape; both calls were ignored and the task list and error are those
\* of the load.
C16_Witness ==
    /\ \E k \in 1..Len(edits) : edits[k].taskId.kind = "subtask" /\ edits[k].status = "ignored"
    /\ \E k \in 1..Len(edits) : edits[k].taskId.kind = "other" /\ edits[k].status = "ignored"
    /\ error = NoError
    /\ \E today \in Nows : allTasks = convertToGanttTasks(milestones, issues, today)

\* C21: a successful edit of node X changes only X's start, end,
\* hasOriginalStartDate and hasOriginalDueDate in the task list: every other node,
\* every other field of X, the order of the list, and the issues and milestones
\* snapshots are unchanged.
C21_EditChangesOnlyDates ==
    [][ \A k \in 1..Len(edits) :
            (edits[k].status = "inflight" /\ edits'[k].status = "ok") =>
                /\ Len(allTasks') = Len(allTasks)
                /\ \A j \in 1..Len(allTasks) :
                      IF allTasks[j].id = edits[k].taskId
                      THEN allTasks'[j] =
                               [allTasks[j] EXCEPT
                                   !.start = allTasks'[j].start,
                                   !.end = allTasks'[j].end,
                                   !.hasOriginalStartDate = allTasks'[j].hasOriginalStartDate,
                                   !.hasOriginalDueDate = allTasks'[j].hasOriginalDueDate]
                      ELSE allTasks'[j] = allTasks[j]
                /\ issues' = issues
                /\ milestones' = milestones ]_vars

\* C21 witness: an edit of an issue that has a checklist sub-item and a milestone
\* has succeeded; the issue node holds the edit's dates and flags, the sub-item
\* and the milestone node do not.
C21_Witness ==
    \E k \in 1..Len(edits) :
        /\ edits[k].status = "ok"
        /\ edits[k].taskId.kind = "issue"
        /\ \E t \in Range(allTasks) :
              /\ t.id = edits[k].taskId
              /\ t.start = edits[k].start /\ t.end = edits[k].end
              /\ t.hasOriginalStartDate /\ t.hasOriginalDueDate
              /\ \E s \in Range(allTasks) :
                    s.parent = t.id /\ s.start # t.start /\ ~s.hasOriginalStartDate
              /\ \E m \in Range(allTasks) : m.id = t.parent /\ m.end # t.end

----------------------------------------------------------------------------
(* Claims about the preference store, under SpecStore *)

\* A stored item that is the serialization of a FilterState.
WellFormed(st) ==
    /\ st # <<>>
    /\ st[1].json = "object"
    /\ st[1].issueState \in IssueStates
    /\ st[1].hasDateRange
    /\ st[1].dateRange.startDate.k # "bad"
    /\ st[1].dateRange.endDate.k # "bad"
    /\ st[1].hasIds

\* C17: whenever the stored item is absent, unreadable or malformed, the session's
\* initial FilterState is the default: issueState opened, the date range from one
\* month before now to two months after, no milestone restriction.
C17_MalformedFallsBackToDefault ==
    (~initialLoadDone /\ ~WellFormed(storage)) =>
        \E today \in Nows :
            filterOptions = [issueState |-> "opened",
                             dateRange |-> [startDate |-> today - Days(30),
                                            endDate |-> today + Days(60)],
                             selectedMilestoneIds |-> <<>>]

\* A step of setFilterOptions: a user operation that is not a reload.
IsSetFilterStep == nOps' = nOps + 1 /\ initialLoadDone'

\* The serialization of a Date: its timestamp, day and time of day.
IsoOf(date) == IF date = NoDate THEN NullStr
               ELSE [k |-> "ok", d |-> date \div TicksPerDay, t |-> date % TicksPerDay]

\* C18: after every call of setFilterOptions the stored item is the serialization
\* of the current FilterState (issueState, both date bounds as timestamps or null,
\* the milestone ids), and loading it back yields that FilterState.
C18_SaveRoundTrip ==
    [][ IsSetFilterStep =>
            /\ storage' # <<>>
            /\ storage'[1].json = "object"
            /\ storage'[1].issueState = filterOptions'.issueState
            /\ storage'[1].selectedMilestoneIds = filterOptions'.selectedMilestoneIds
            /\ storage'[1].dateRange.startDate = IsoOf(filterOptions'.dateRange.startDate)
            /\ storage'[1].dateRange.endDate = IsoOf(filterOptions'.dateRange.endDate)
            /\ \A today \in Nows :
                  getInitialFilterOptions(storage', today) = filterOptions' ]_vars

\* C18 witness: a session set the issue state to all, with a start bound that has
\* a time of day and with the end bound cleared; the next session started from the
\* stored item with exactly that FilterState.
C18_Witness ==
    /\ ~initialLoadDone
    /\ nOps > 0
    /\ WellFormed(storage)
    /\ filterOptions.issueState = "all"
    /\ filterOptions.dateRange.startDate # NoDate
    /\ filterOptions.dateRange.startDate % TicksPerDay # 0
    /\ storage[1].issueState = "all"
    /\ storage[1].dateRange.startDate.t # 0

----------------------------------------------------------------------------
(* Claims about checklist extraction, under SpecParse *)

\* The lines of a description.
RECURSIVE Lines(_)
Lines(s) ==
    LET e == LineEnd(s, 1)
    IN IF e > Len(s) THEN <<s>>
       ELSE <<SubSeq(s, 1, e - 1)>> \o Lines(SubSeq(s, e + 1, Len(s)))

\* The item of one line, as a sequence of zero or one items: the line has the
\* shape [blanks][- or *][blanks][checkbox][free text].
LineItem(line) ==
    LET b == SkipWhitespace(line, 1)
        x == SkipWhitespace(line, b + 1)
    IN IF /\ b <= Len(line) /\ IsBullet(line[b])
          /\ x <= Len(line) /\ IsBox(line[x])
          /\ x < Len(line)
       THEN << [checked |-> line[x] \in {"[x]", "[X]"},
                text |-> trim(SubSeq(line, x + 1, Len(line)))] >>
       ELSE <<>>

RECURSIVE LineItems(_)
LineItems(lines) ==
    IF lines = <<>> THEN <<>> ELSE LineItem(Head(lines)) \o LineItems(Tail(lines))

\* C20: checklist extraction returns exactly one item per description line of the
\* shape [optional whitespace][- or *][checkbox][free text], in description order,
\* checked iff the box holds x or X; a line without this shape contributes nothing,
\* neither an item nor part of another item's text.
C20_OneItemPerShapedLine ==
    Built =>
        \A k \in 1..Len(issues) :
            \E r \in Range(remote.is) :
                /\ r.id = issues[k].id
                /\ issues[k].tasks = LineItems(Lines(r.description))

----------------------------------------------------------------------------
(* Claims about the loads, under SpecLoad *)

\* Load g writes the task list in this step.
LoadWrites(g) == tasksGen' = g /\ (g > Len(loads) \/ loads'[g] # loads[g])

\* C22: within one load the Task Tree Builder, and the label enrichment before
\* it, runs only after the milestones fetch, the labels fetch and the issues fetch
\* of that same load have completed; the task list a load writes is the
\* demonstration dataset or the build from the three results of that load, never
\* a build from a part of them.
C22_BuildAfterAllFetches ==
    [][ \A g \in 1..Len(loads') :
            LoadWrites(g) =>
                \/ \E today \in Nows : allTasks' = getDemoTasks(today)
                \/ /\ g <= Len(loads)
                   /\ loads[g].phase = "resp"
                   /\ issues' = enrichIssuesWithLabels(loads[g].data.is, loads[g].data.ls)
                   /\ \E today \in Nows :
                         allTasks' = convertToGanttTasks(loads[g].data.ms, issues', today) ]_vars

\* C22 witness: two loads with different issue states were in flight together;
\* the first to be started has completed after the milestones of the second had
\* arrived, and the task list holds the nodes of the first load's own issues.
C22_Witness ==
    /\ Len(loads) = 2
    /\ loads[1].phase = "done" /\ loads[2].phase = "issues"
    /\ loads[1].state # loads[2].state
    /\ tasksGen = 1
    /\ issues # <<>>
    /\ \A k \in 1..Len(issues) : issues[k].state = loads[1].state
    /\ \E today \in Nows : allTasks = convertToGanttTasks(milestones, issues, today)

\* A step of setFilterOptions: a user operation that is not a refresh.
IsFilterChangeStep ==
    /\ nOps' = nOps + 1
    /\ ~(Len(loads') > Len(loads) /\ loads'[Len(loads')].by = "refresh")

\* The step starts the remote list calls of a new load.
FetchStarted == Len(loads') = Len(loads) + 1 /\ loads'[Len(loads')].phase = "ml"

\* C23: setFilterOptions starts a remote re-fetch iff the new options differ from
\* the current ones in issueState or in the set of selected milestone ids; a change
\* of the date range alone starts no fetch and only re-filters the task list
\* already built; the re-fetch uses the new issueState and the new selection.
C23_RefetchIffStateOrMilestones ==
    [][ IsFilterChangeStep =>
            LET differ ==
                    \/ filterOptions'.issueState # filterOptions.issueState
                    \/ Range(filterOptions'.selectedMilestoneIds)
                           # Range(filterOptions.selectedMilestoneIds)
            IN /\ differ <=> FetchStarted
               /\ FetchStarted =>
                      /\ loads'[Len(loads')].state = filterOptions'.issueState
                      /\ loads'[Len(loads')].milestoneIds
                             = filterOptions'.selectedMilestoneIds
               /\ ~differ =>
                      /\ loads' = loads
                      /\ allTasks' = allTasks
                      /\ tasks' = FilterEffect(allTasks, filterOptions') ]_vars

\* C27: the loading flag is true in every state in which at least one loadData
\* call is still in flight, also when a second load was started while the first
\* was pending; it is false only when no load is in flight.
C27_LoadingWhileInFlight ==
    (\E g \in 1..Len(loads) : InFlight(loads[g])) => loading

----------------------------------------------------------------------------
(* Claims about the hook and the Edit Coordinator, under Spec *)

NodesOf(ts, id) == {t \in Range(ts) : t.id = id}

\* C11: with a non-empty milestone selection the milestone filter is ANDed with the
\* date filter: every visible node passed the date filter, a visible milestone node
\* has its id in the selection, a visible issue node has a milestone whose id is in
\* the selection, and an issue without milestone is never visible.
C11_MilestoneFilterAnded ==
    Len(filterOptions.selectedMilestoneIds) > 0 =>
        \A t \in Range(tasks) :
            /\ t \in Range(filterTasksByDateRange(allTasks, filterOptions.dateRange))
            /\ IsMilestoneNode(t) => Includes(filterOptions.selectedMilestoneIds, t.id.n)
            /\ IsIssueNode(t) => /\ t.parent.kind = "milestone"
                                 /\ Includes(filterOptions.selectedMilestoneIds, t.parent.n)

\* C14: in every state of the task list each checklist sub-item's start and end
\* equal those of its parent issue node, and its progress is 100 if the item is
\* checked and 0 otherwise.
C14_SubtaskFollowsParent ==
    \A s \in Range(allTasks) :
        IsSubtaskNode(s) =>
            /\ \A p \in Range(allTasks) :
                  (IsIssueNode(p) /\ p.id = s.parent) =>
                      (s.start = p.start /\ s.end = p.end)
            /\ \A k \in 1..Len(issues) :
                  issues[k].id = s.id.n =>
                      s.progress = IF issues[k].tasks[s.id.idx + 1].checked THEN 100 ELSE 0

\* C1: every start_date and due_date passed to updateIssue or updateMilestone is a
\* real remote date of the node or a value the user's gesture set, never an
\* untouched inferred bound.
C1_NoInferredDateSent ==
    \A k \in 1..Len(edits) :
        edits[k].status # "ignored" =>
            (edits[k].startSrc # "inferred" /\ edits[k].endSrc # "inferred")

\* C2: when the remote update call of an edit fails, the message is surfaced in the
\* error state and the task list is as it was: neither the start of the edit nor
\* its failure changes any node.
C2_FailedEditLeavesTasks ==
    [][ /\ Len(edits') > Len(edits) => (allTasks' = allTasks /\ tasks' = tasks)
        /\ \A k \in 1..Len(edits) :
              (edits[k].status = "inflight" /\ edits'[k].status = "failed") =>
                  /\ error' = edits'[k].msg
                  /\ error' # NoError
                  /\ allTasks' = allTasks
                  /\ tasks' = tasks ]_vars

\* C2 witness: an edit of a node of the task list has failed and its message is
\* the error shown.
C2_Witness ==
    \E k \in 1..Len(edits) :
        /\ edits[k].status = "failed"
        /\ error = edits[k].msg
        /\ NodesOf(allTasks, edits[k].taskId) # {}

\* C3: when the remote update of an edit succeeds, the node with that id has both
\* hasOriginal flags true and start/end equal to the given dates at date-only
\* precision, the calendar dates sent to the remote.
C3_PatchIsDateOnly ==
    [][ \A k \in 1..Len(edits) :
            (edits[k].status = "inflight" /\ edits'[k].status = "ok") =>
                \A t \in NodesOf(allTasks', edits[k].taskId) :
                    /\ t.hasOriginalStartDate /\ t.hasOriginalDueDate
                    /\ t.start = parseDate(formatDate(edits[k].start))
                    /\ t.end = parseDate(formatDate(edits[k].end)) ]_vars

NoLoadInFlight == \A g \in 1..Len(loads) : ~InFlight(loads[g])

\* The task list load g wrote is the demonstration dataset.
WroteDemo(g) == g \in 1..Len(loads) /\ loads[g].phase \in {"failed", "demo"}

\* C25: while the displayed task list is the demonstration dataset, no drag edit
\* of a demonstration node results in a remote update call (updateMilestone or
\* updateIssue), whatever issues snapshot an earlier fetch left.
C25_NoRemoteUpdateFromDemo ==
    \A k \in 1..Len(edits) :
        WroteDemo(edits[k].gen) => edits[k].status = "ignored"

\* A node without what the patch of an edit sets.
Unpatched(t) ==
    [t EXCEPT !.start = 0, !.end = 0,
              !.hasOriginalStartDate = FALSE, !.hasOriginalDueDate = FALSE]

\* C28: in every state where no load is in flight, the task list, the issues
\* snapshot and the milestones list come from the same load: the task list is the
\* build from the milestones and issues held, up to the start/end patches of
\* successful edits, also after a load that failed partway.
C28_SnapshotsOfOneLoad ==
    (Len(loads) > 0 /\ NoLoadInFlight) =>
        \E today \in Nows :
            LET built == convertToGanttTasks(milestones, issues, today)
            IN /\ Len(allTasks) = Len(built)
               /\ \A k \in 1..Len(built) : Unpatched(allTasks[k]) = Unpatched(built[k])

\* C29: the calendar date string sent to the remote for an edited start or end
\* is the calendar day of the dragged Date as the user sees it in local time, for
\* every time-zone offset and every time of day.
C29_SentDayIsLocalDay ==
    \A k \in 1..Len(edits) :
        edits[k].status # "ignored" =>
            \A offset \in TzOffsets :
                /\ edits[k].start_date = DateStr(LocalDay(edits[k].start, offset))
                /\ edits[k].due_date = DateStr(LocalDay(edits[k].end, offset))

\* The issues a fetch with the options of load l returns (by id).
FetchedIssueIds(l) ==
    LET titles == SelectSeq(l.milestoneIds,
                            LAMBDA m : \E k \in 1..Len(remote.ms) : remote.ms[k].id = m)
        is == fetchAllIssuesAsWorkItems(remote, l.state, titles)
    IN {is[k].id : k \in 1..Len(is)}

NoEditInFlight == \A k \in 1..Len(edits) : edits[k].status # "inflight"

\* The remote objects edit e wrote: the milestone or the issue it targets.
RemoteTargets(e) ==
    IF e.taskId.kind = "milestone"
    THEN {m \in Range(remote.ms) : m.id = e.target}
    ELSE {i \in Range(remote.is) : i.iid = e.target}

\* C26: once no load and no edit is in flight, the local dates of a node X whose
\* edit succeeded agree with the remote's dates of X: the patch of the edit is not
\* replaced by the result of a fetch whose reads were served before the edit's
\* write.
C26_EditNotReplacedByStaleFetch ==
    (NoLoadInFlight /\ NoEditInFlight /\ ~WroteDemo(tasksGen)) =>
        \A k \in 1..Len(edits) :
            edits[k].status = "ok" =>
                \A t \in NodesOf(allTasks, edits[k].taskId), r \in RemoteTargets(edits[k]) :
                    /\ formatDate(t.start) = r.start_date
                    /\ formatDate(t.end) = r.due_date

\* C4: once no fetch is in flight, the issues and the task list are those of the
\* most recently started fetch.
C4_LatestFetchWins ==
    (Len(loads) > 0 /\ NoLoadInFlight /\ ~useDemoDataRef) =>
        /\ {issues[k].id : k \in 1..Len(issues)} = FetchedIssueIds(loads[Len(loads)])
        /\ {t.id.n : t \in {x \in Range(allTasks) : IsIssueNode(x)}}
               = FetchedIssueIds(loads[Len(loads)])

\* C5: once two edits of the same task, A started before B, have both succeeded
\* (and no load has rebuilt the list since B started), the node holds B's dates.
C5_LastEditWins ==
    \A a \in 1..Len(edits), b \in 1..Len(edits) :
        (/\ a < b
         /\ edits[a].taskId = edits[b].taskId
         /\ edits[a].status = "ok" /\ edits[b].status = "ok"
         /\ edits[b].gen = tasksGen) =>
            \A t \in NodesOf(allTasks, edits[b].taskId) :
                t.start = edits[b].start /\ t.end = edits[b].end

\* C6: every user-triggered refresh, also one after a failed fetch, issues the
\* remote list calls again.
C6_RefreshRetries ==
    [][ (Len(loads') > Len(loads) /\ loads'[Len(loads')].by = "refresh") =>
            loads'[Len(loads')].phase = "ml" ]_vars

\* C7: when a remote list call of a load fails, the load ends with its one error
\* message set, the task list equal to the demonstration dataset and loading false.
C7_LoadFailureFallsBack ==
    [][ \A g \in 1..Len(loads) :
            (InFlight(loads[g]) /\ loads'[g].phase = "failed") =>
                /\ error' = loads'[g].msg
                /\ error' \in Msgs
                /\ \E today \in Nows : allTasks' = getDemoTasks(today)
                /\ loading' = FALSE ]_vars

\* C7 witness: a load failed after its milestones had arrived, the error shows its
\* message, the demonstration dataset is the task list and loading is false.
C7_Witness ==
    \E g \in 1..Len(loads) :
        /\ loads[g].phase = "failed"
        /\ milestones # <<>>
        /\ error = loads[g].msg
        /\ \E today \in Nows : allTasks = getDemoTasks(today)
        /\ ~loading

====
